---- MODULE Spec2Model ----
(***************************************************************************)
(* A model of the customer feedback analyser (src/app.py): the sentiment   *)
(* classifier (TextBlob primary, keyword fallback), the SQLite record      *)
(* store, and the /analyze, /batch_analyze and /stats handlers.            *)
(*                                                                         *)
(* Texts are sequences of one-character strings.  Confidences and          *)
(* polarities are integers in units of 1/10000 (0.3 is 3000), so that      *)
(* round(avg, 4) is rounding to a whole unit.  Binary floating point       *)
(* itself is not modelled (3 * 0.3 is taken to be 0.9).                    *)
(***************************************************************************)
EXTENDS Integers, Sequences, FiniteSets, TLC

(***************************************************************************)
(* Bounds of the model.                                                    *)
(***************************************************************************)
MaxFrags == 4          \* fragments concatenated into a classifier text
MaxShortBatch == 2     \* length of the freely chosen part of a batch
MaxRecords == 2        \* capacity of the store: an insert beyond it fails

(***************************************************************************)
(* Program constants.                                                      *)
(***************************************************************************)
PolarityCutoff == 1000     \* polarity > 0.1, polarity < -0.1
HitWeight == 3000          \* count * 0.3
MaxConfidence == 10000     \* min(..., 1.0)
NeutralConfidence == 1000  \* confidence = 0.1
MaxBatchSize == 100        \* len(texts) > 100
None == 0                  \* return None (row ids start at 1)
Raised == -1               \* marks a call that ended in an exception

(***************************************************************************)
(* Characters and strings.                                                 *)
(***************************************************************************)
UpperLetters ==
  <<"A","B","C","D","E","F","G","H","I","J","K","L","M",
    "N","O","P","Q","R","S","T","U","V","W","X","Y","Z">>

LowerLetters ==
  <<"a","b","c","d","e","f","g","h","i","j","k","l","m",
    "n","o","p","q","r","s","t","u","v","w","x","y","z">>

Whitespace == {" ", "\t", "\n"}

\* one character of str.lower()
LowerChar(c) ==
  IF \E i \in 1..Len(UpperLetters) : UpperLetters[i] = c
  THEN LowerLetters[CHOOSE i \in 1..Len(UpperLetters) : UpperLetters[i] = c]
  ELSE c

\* a variant that leaves the case as it is
ToLower_Identity(s) == s

\* text.lower()
ToLower(s) == [i \in 1..Len(s) |-> LowerChar(s[i])]

\* word in text_lower
Contains(word, s) ==
  \E i \in 1..(Len(s) - Len(word) + 1) : SubSeq(s, i, i + Len(word) - 1) = word

\* text.strip()
Strip(s) ==
  LET keep == {i \in 1..Len(s) : s[i] \notin Whitespace}
  IN IF keep = {} THEN << >>
     ELSE LET lo == CHOOSE i \in keep : \A j \in keep : i <= j
              hi == CHOOSE i \in keep : \A j \in keep : j <= i
          IN SubSeq(s, lo, hi)

Min(a, b) == IF a <= b THEN a ELSE b

Abs(a) == IF a < 0 THEN -a ELSE a

positive_words ==
  << <<"g","o","o","d">>, <<"g","r","e","a","t">>,
     <<"e","x","c","e","l","l","e","n","t">>, <<"a","m","a","z","i","n","g">>,
     <<"l","o","v","e">>, <<"p","e","r","f","e","c","t">>,
     <<"a","w","e","s","o","m","e">>, <<"f","a","n","t","a","s","t","i","c">>,
     <<"w","o","n","d","e","r","f","u","l">>,
     <<"o","u","t","s","t","a","n","d","i","n","g">>,
     <<"s","u","p","e","r","b">>, <<"b","r","i","l","l","i","a","n","t">> >>

negative_words ==
  << <<"b","a","d">>, <<"t","e","r","r","i","b","l","e">>,
     <<"a","w","f","u","l">>, <<"h","a","t","e">>, <<"p","o","o","r">>,
     <<"w","o","r","s","t">>, <<"h","o","r","r","i","b","l","e">>,
     <<"d","i","s","a","p","p","o","i","n","t","i","n","g">>,
     <<"p","a","t","h","e","t","i","c">>, <<"u","s","e","l","e","s","s">>,
     <<"g","a","r","b","a","g","e">>,
     <<"d","i","s","g","u","s","t","i","n","g">> >>

\* sum(1 for word in words if word in text_lower)
RECURSIVE CountHits(_, _)
CountHits(words, s) ==
  IF words = << >> THEN 0
  ELSE (IF Contains(Head(words), s) THEN 1 ELSE 0) + CountHits(Tail(words), s)

(***************************************************************************)
(* SimpleSentimentAnalyzer.predict_sentiment.  A result is a record; exc   *)
(* tells whether the call raised instead of returning.                     *)
(***************************************************************************)
SentimentResult(label, conf, kind) ==
  [exc |-> FALSE, sentiment |-> label, confidence |-> conf, model_type |-> kind]

RaisedResult ==
  [exc |-> TRUE, sentiment |-> "none", confidence |-> 0, model_type |-> "none"]

\* the fallback branch: keyword counting
KeywordFallback(text) ==
  LET text_lower == ToLower(text)
      positive_count == CountHits(positive_words, text_lower)
      negative_count == CountHits(negative_words, text_lower)
  IN IF positive_count > negative_count
     THEN SentimentResult("positive",
                          Min(positive_count * HitWeight, MaxConfidence),
                          "keyword_fallback")
     ELSE IF negative_count > positive_count
     THEN SentimentResult("negative",
                          Min(negative_count * HitWeight, MaxConfidence),
                          "keyword_fallback")
     ELSE SentimentResult("neutral", NeutralConfidence, "keyword_fallback")

\* the TextBlob branch, for a polarity the library returned
PolarityLabel(polarity) ==
  IF polarity > PolarityCutoff THEN "positive"
  ELSE IF polarity < -PolarityCutoff THEN "negative"
  ELSE "neutral"

\* a variant that lets the error of TextBlob through
TextBlobError_Propagates(text) == RaisedResult

\* what the handler of `except Exception` around TextBlob does: log, fall through
TextBlobError(text) == KeywordFallback(text)

\* outcome is what TextBlob does on this text: it raises, or returns a polarity
predict_sentiment(text, available, outcome) ==
  IF available
  THEN IF outcome.raises
       THEN TextBlobError(text)
       ELSE SentimentResult(PolarityLabel(outcome.polarity),
                            Abs(outcome.polarity), "textblob")
  ELSE KeywordFallback(text)

(***************************************************************************)
(* JSON values of a request body.                                          *)
(***************************************************************************)
JStr(s) == [t |-> "str", s |-> s, n |-> 0, items |-> << >>]

JInt(n) == [t |-> "int", s |-> << >>, n |-> n, items |-> << >>]

JNull == [t |-> "null", s |-> << >>, n |-> 0, items |-> << >>]

JList(items) == [t |-> "list", s |-> << >>, n |-> 0, items |-> items]

\* isinstance(v, str), isinstance(v, list)
IsStr(v) == v.t = "str"

IsList(v) == v.t = "list"

\* Python truth value: `not v` is ~Truthy(v)
Truthy(v) ==
  CASE v.t = "str" -> v.s # << >>
    [] v.t = "int" -> v.n # 0
    [] v.t = "list" -> v.items # << >>
    [] OTHER -> FALSE

(***************************************************************************)
(* The state.                                                              *)
(***************************************************************************)
VARIABLES
  TEXTBLOB_AVAILABLE,  \* the import of textblob succeeded
  tableExists,         \* predictions.db holds the predictions table
  table,               \* the committed rows of predictions, in commit order
  sqlite_sequence,     \* AUTOINCREMENT: the largest row id ever committed
  writer,              \* the request holding the database write lock, or 0
  req,                 \* per worker: the request it is handling
  call                 \* a direct call of predict_sentiment

vars == <<TEXTBLOB_AVAILABLE, tableExists, table, sqlite_sequence, writer, req, call>>

NumWorkers == 2

Workers == 1..NumWorkers

EmptyStats ==
  [keys |-> {}, total_predictions |-> 0,
   sentiment_distribution |-> [l \in {} |-> 0], average_confidence |-> 0]

NoResponse ==
  [status |-> 0, analysis_id |-> None, sentiment |-> RaisedResult,
   results |-> << >>, processed_count |-> 0, stats |-> EmptyStats]

Idle ==
  [kind |-> "idle", pc |-> "idle", body |-> [has |-> FALSE, value |-> JNull],
   i |-> 0, sentiment |-> RaisedResult, results |-> << >>,
   classified |-> << >>, stored |-> << >>, errors |-> << >>, rowid |-> None,
   stats |-> EmptyStats, resp |-> NoResponse]

NoCall ==
  [phase |-> "none", text |-> << >>,
   outcome |-> [raises |-> FALSE, polarity |-> 0], result |-> RaisedResult]

\* what TextBlob may do on a call
Outcomes(polarities) ==
  {[raises |-> TRUE, polarity |-> 0]}
    \cup {[raises |-> FALSE, polarity |-> q] : q \in polarities}

(***************************************************************************)
(* SimpleDatabase.                                                         *)
(***************************************************************************)
\* CREATE TABLE IF NOT EXISTS, inside try/except: ok is whether SQLite did it
create_tables(exists, ok) == exists \/ ok

\* the id AUTOINCREMENT gives the next row
NextRowId == sqlite_sequence + 1

\* a variant in which writers do not exclude each other
LockFree_Always == TRUE

\* the write lock that the INSERT of a transaction takes
LockFree == writer = 0

\* a variant without the try/except of store_prediction
StoreFailed_Raises == Raised

\* what store_prediction gives its caller when SQLite raised
StoreFailed == None

\* SELECT COUNT(*) FROM predictions
SelectCount == Len(table)

\* SELECT sentiment_label, COUNT(*) ... GROUP BY sentiment_label, as a dict
SelectGroup ==
  [l \in {table[k].sentiment_label : k \in 1..Len(table)} |->
     Cardinality({k \in 1..Len(table) : table[k].sentiment_label = l})]

RECURSIVE SumConfidence(_)
SumConfidence(rows) ==
  IF rows = << >> THEN 0
  ELSE Head(rows).sentiment_confidence + SumConfidence(Tail(rows))

\* round(x, 4) of the quotient sum / n, in units of 1/10000
Round4(sum, n) ==
  LET q == sum \div n
      rem == sum % n
  IN IF 2 * rem < n THEN q
     ELSE IF 2 * rem > n THEN q + 1
     ELSE IF q % 2 = 0 THEN q ELSE q + 1

\* a variant that selects SUM instead of AVG
SelectAvgRounded_Sum == SumConfidence(table)

\* SELECT AVG(sentiment_confidence), `or 0.0`, round(avg_confidence, 4)
SelectAvgRounded ==
  IF table = << >> THEN 0 ELSE Round4(SumConfidence(table), Len(table))

\* what get_statistics returns when SQLite raised
StatisticsError == EmptyStats

(***************************************************************************)
(* The request handlers.  A handler runs from one database call to the     *)
(* next in one step; q is the state of the request, outcome what TextBlob  *)
(* does on the next text classified.                                       *)
(***************************************************************************)
SuccessEntry(index, text, res) ==
  [index |-> index, text |-> text, error |-> FALSE,
   label |-> res.sentiment, confidence |-> res.confidence]

ErrorEntry(index, text) ==
  [index |-> index, text |-> text, error |-> TRUE, label |-> "none", confidence |-> 0]

\* /analyze: the two 400 checks
AnalyzeRejects(body) ==
  \/ ~body.has
  \/ ~Truthy(body.value)
  \/ ~IsStr(body.value)
  \/ Len(Strip(body.value.s)) = 0

\* a variant whose size check is off by one (>= for >)
BatchRejects_OffByOne(body) ==
  \/ ~body.has
  \/ ~IsList(body.value)
  \/ Len(body.value.items) = 0
  \/ Len(body.value.items) >= MaxBatchSize

\* /batch_analyze: the three 400 checks
BatchRejects(body) ==
  \/ ~body.has
  \/ ~IsList(body.value)
  \/ Len(body.value.items) = 0
  \/ Len(body.value.items) > MaxBatchSize

\* a variant that checks emptiness only, not the type
ItemSkipped_NoTypeCheck(v) == ~Truthy(v)

\* /batch_analyze: `if not text or not isinstance(text, str): continue`
ItemSkipped(v) == ~Truthy(v) \/ ~IsStr(v)

\* the first item at or after position from that is not skipped (Len + 1: none)
NextItem(items, from) ==
  IF \E j \in from..Len(items) : ~ItemSkipped(items[j])
  THEN CHOOSE j \in from..Len(items) :
         /\ ~ItemSkipped(items[j])
         /\ \A k \in from..(j - 1) : ItemSkipped(items[k])
  ELSE Len(items) + 1

Reject(q, status) ==
  [q EXCEPT !.pc = "done", !.resp = [NoResponse EXCEPT !.status = status]]

\* /batch_analyze: the for loop from item q.i on, up to the next store_prediction
RECURSIVE BatchLoop(_, _, _)
BatchLoop(q, available, outcome) ==
  LET items == q.body.value.items
      j == NextItem(items, q.i)
  IN IF j > Len(items)
     THEN [q EXCEPT !.pc = "done", !.i = j,
                    !.resp = [NoResponse EXCEPT !.status = 200,
                                                !.results = q.results,
                                                !.processed_count = Len(q.results)]]
     ELSE LET res == predict_sentiment(items[j].s, available, outcome)
              called == [q EXCEPT !.i = j, !.classified = Append(@, items[j])]
          IN IF res.exc
             THEN BatchLoop([called EXCEPT !.i = j + 1,
                                           !.errors = Append(@, "Error processing item"),
                                           !.results = Append(@, ErrorEntry(j - 1, items[j]))],
                            available, outcome)
             ELSE [called EXCEPT !.pc = "insert", !.sentiment = res,
                                 !.results = Append(@, SuccessEntry(j - 1, items[j], res))]

\* /batch_analyze up to the first store_prediction
batch_analyze(body, available, outcome) ==
  LET q == [Idle EXCEPT !.kind = "batch", !.body = body, !.i = 1]
  IN IF BatchRejects(body) THEN Reject(q, 400) ELSE BatchLoop(q, available, outcome)

\* /analyze up to store_prediction
analyze_feedback(body, available, outcome) ==
  LET q == [Idle EXCEPT !.kind = "analyze", !.body = body]
  IN IF AnalyzeRejects(body) THEN Reject(q, 400)
     ELSE LET res == predict_sentiment(body.value.s, available, outcome)
              called == [q EXCEPT !.classified = Append(@, body.value)]
          IN IF res.exc
             THEN Reject([called EXCEPT !.errors = Append(@, "Analysis error")], 500)
             ELSE [called EXCEPT !.pc = "insert", !.sentiment = res,
                                 !.resp = [NoResponse EXCEPT !.status = 200,
                                                             !.sentiment = res]]

\* the handler from the return of store_prediction (ret: a row id, None, or
\* Raised) to its next database call or its response
AfterStore(q, ret, available, outcome) ==
  LET logged == [q EXCEPT !.stored = Append(@, ret), !.rowid = None,
                          !.errors = IF ret = None
                                     THEN Append(@, "Database storage error") ELSE @]
  IN IF q.kind = "analyze"
     THEN IF ret = Raised
          THEN [logged EXCEPT !.pc = "done",
                              !.errors = Append(@, "Database storage failed")]
          ELSE [logged EXCEPT !.pc = "done", !.resp.analysis_id = ret]
     ELSE LET items == q.body.value.items
              caught == IF ret = Raised
                        THEN [logged EXCEPT
                                !.errors = Append(@, "Error processing item"),
                                !.results = Append(@, ErrorEntry(q.i - 1, items[q.i]))]
                        ELSE logged
          IN BatchLoop([caught EXCEPT !.i = q.i + 1], available, outcome)

\* the row store_prediction inserts for request q
Row(q, id) ==
  [id |-> id,
   input_text |-> IF q.kind = "analyze" THEN q.body.value ELSE q.body.value.items[q.i],
   sentiment_label |-> q.sentiment.sentiment,
   sentiment_confidence |-> q.sentiment.confidence]

(***************************************************************************)
(* The inputs the model draws from.                                        *)
(***************************************************************************)
T_good == <<"g","o","o","d">>

T_bad == <<"b","a","d">>

T_blank == <<" ">>

\* all sequences over S of length at most n
SeqsUpTo(S, n) == UNION {[1..k -> S] : k \in 0..n}

\* items with JNull before them up to length n
PadTo(items, n) ==
  [k \in 1..n |-> IF k <= n - Len(items) THEN JNull ELSE items[k - (n - Len(items))]]

Polarities == {-10000, -1001, -1000, 0, 1000, 1001, 10000}

ServicePolarities == {-3333}

ServiceOutcomes == Outcomes(ServicePolarities)

Items == {JInt(42), JStr(<< >>), JStr(T_blank), JStr(T_good)}

Missing == [has |-> FALSE, value |-> JNull]

Body(v) == [has |-> TRUE, value |-> v]

AnalyzeBodies == {Missing} \cup {Body(v) : v \in Items \cup {JNull, JStr(T_bad)}}

BatchBodies ==
  {Missing, Body(JStr(T_good))}
    \cup {Body(JList(l)) : l \in SeqsUpTo(Items, MaxShortBatch)}
    \cup {Body(JList(<<JStr(T_good), JInt(42), JStr(T_bad)>>))}
    \cup {Body(JList(PadTo(l, n))) :
            l \in SeqsUpTo({JStr(T_blank), JStr(T_good)}, 1),
            n \in {MaxBatchSize, MaxBatchSize + 1}}

\* the requests that run concurrently
ConcurrentOutcomes == Outcomes({-3333})

ConcurrentAnalyzeBodies == {Body(JStr(T_good))}

ConcurrentBatchBodies ==
  {Body(JList(<<JInt(42), JStr(T_good)>>))}

Fragments ==
  { T_good, <<"G","R","E","A","T">>, <<"l","o","v","e">>, <<"s","u","p","e","r","b">>,
    T_bad, <<"H","a","t","e">>, <<" ","x"," ">> }

RECURSIVE Concat(_)
Concat(ss) == IF ss = << >> THEN << >> ELSE Head(ss) \o Concat(Tail(ss))

ClassifyTexts == {Concat(ss) : ss \in SeqsUpTo(Fragments, MaxFrags)}

(***************************************************************************)
(* Initial state: the module has been imported, SimpleDatabase() built.    *)
(***************************************************************************)
Init ==
  /\ TEXTBLOB_AVAILABLE \in BOOLEAN
  /\ \E ok \in BOOLEAN : tableExists = create_tables(FALSE, ok)
  /\ table = << >>
  /\ sqlite_sequence = 0
  /\ writer = 0
  /\ req = [r \in Workers |-> Idle]
  /\ call = NoCall

db == <<tableExists, table, sqlite_sequence, writer>>

(***************************************************************************)
(* Actions.                                                                *)
(***************************************************************************)
\* POST /analyze arrives at worker r
Analyze(r, bodies, outcomes) ==
  /\ req[r].kind = "idle"
  /\ \E body \in bodies, outcome \in outcomes :
       req' = [req EXCEPT ![r] = analyze_feedback(body, TEXTBLOB_AVAILABLE, outcome)]
  /\ UNCHANGED <<TEXTBLOB_AVAILABLE, db, call>>

\* POST /batch_analyze arrives at worker r
BatchAnalyze(r, bodies, outcomes) ==
  /\ req[r].kind = "idle"
  /\ \E body \in bodies, outcome \in outcomes :
       req' = [req EXCEPT ![r] = batch_analyze(body, TEXTBLOB_AVAILABLE, outcome)]
  /\ UNCHANGED <<TEXTBLOB_AVAILABLE, db, call>>

\* store_prediction: connect and INSERT succeed; the transaction is open
InsertOk(r) ==
  /\ req[r].pc = "insert"
  /\ tableExists
  /\ LockFree
  /\ Len(table) < MaxRecords
  /\ writer' = r
  /\ req' = [req EXCEPT ![r].pc = "commit", ![r].rowid = NextRowId]
  /\ UNCHANGED <<TEXTBLOB_AVAILABLE, tableExists, table, sqlite_sequence, call>>

\* store_prediction: connect or INSERT raises (no table, database locked, disk full)
InsertFail(r, outcomes) ==
  /\ req[r].pc = "insert"
  /\ \E outcome \in outcomes :
       req' = [req EXCEPT ![r] = AfterStore(req[r], StoreFailed, TEXTBLOB_AVAILABLE, outcome)]
  /\ UNCHANGED <<TEXTBLOB_AVAILABLE, db, call>>

\* store_prediction: return cursor.lastrowid, the with block commits
CommitOk(r, outcomes) ==
  /\ req[r].pc = "commit"
  /\ table' = Append(table, Row(req[r], req[r].rowid))
  /\ sqlite_sequence' = req[r].rowid
  /\ writer' = 0
  /\ \E outcome \in outcomes :
       req' = [req EXCEPT ![r] = AfterStore(req[r], req[r].rowid, TEXTBLOB_AVAILABLE, outcome)]
  /\ UNCHANGED <<TEXTBLOB_AVAILABLE, tableExists, call>>

\* store_prediction: the commit raises; the transaction is rolled back
CommitFail(r, outcomes) ==
  /\ req[r].pc = "commit"
  /\ writer' = 0
  /\ \E outcome \in outcomes :
       req' = [req EXCEPT ![r] = AfterStore(req[r], StoreFailed, TEXTBLOB_AVAILABLE, outcome)]
  /\ UNCHANGED <<TEXTBLOB_AVAILABLE, tableExists, table, sqlite_sequence, call>>

\* GET /stats arrives at worker r
StatsBegin(r) ==
  /\ req[r].kind = "idle"
  /\ req' = [req EXCEPT ![r] = [Idle EXCEPT !.kind = "stats", !.pc = "count"]]
  /\ UNCHANGED <<TEXTBLOB_AVAILABLE, db, call>>

\* get_statistics: connect, SELECT COUNT(*)
StatsCount(r) ==
  /\ req[r].pc = "count"
  /\ tableExists
  /\ req' = [req EXCEPT ![r].pc = "group", ![r].stats.total_predictions = SelectCount]
  /\ UNCHANGED <<TEXTBLOB_AVAILABLE, db, call>>

\* get_statistics: SELECT ... GROUP BY sentiment_label
StatsGroup(r) ==
  /\ req[r].pc = "group"
  /\ tableExists
  /\ req' = [req EXCEPT ![r].pc = "avg", ![r].stats.sentiment_distribution = SelectGroup]
  /\ UNCHANGED <<TEXTBLOB_AVAILABLE, db, call>>

\* get_statistics: SELECT AVG, the dict is returned; /stats answers 200
StatsAvg(r) ==
  /\ req[r].pc = "avg"
  /\ tableExists
  /\ LET snapshot == [req[r].stats EXCEPT
                        !.keys = {"total_predictions", "sentiment_distribution",
                                  "average_confidence"},
                        !.average_confidence = SelectAvgRounded]
     IN req' = [req EXCEPT ![r].pc = "done", ![r].stats = snapshot,
                           ![r].resp = [NoResponse EXCEPT !.status = 200,
                                                          !.stats = snapshot]]
  /\ UNCHANGED <<TEXTBLOB_AVAILABLE, db, call>>

\* get_statistics: connect or a SELECT raises; /stats answers 200
StatsFail(r) ==
  /\ req[r].pc \in {"count", "group", "avg"}
  /\ req' = [req EXCEPT ![r].pc = "done", ![r].stats = StatisticsError,
                        ![r].errors = Append(@, "Statistics error"),
                        ![r].resp = [NoResponse EXCEPT !.status = 200,
                                                       !.stats = StatisticsError]]
  /\ UNCHANGED <<TEXTBLOB_AVAILABLE, db, call>>

\* the response is sent; the worker is free again
Respond(r) ==
  /\ req[r].pc = "done"
  /\ req' = [req EXCEPT ![r] = Idle]
  /\ UNCHANGED <<TEXTBLOB_AVAILABLE, db, call>>

\* the process is restarted on the same installation: requests in flight are
\* lost, an open transaction is rolled back, and create_tables() runs again
Restart ==
  /\ \E ok \in BOOLEAN : tableExists' = create_tables(tableExists, ok)
  /\ writer' = 0
  /\ req' = [r \in Workers |-> Idle]
  /\ UNCHANGED <<TEXTBLOB_AVAILABLE, table, sqlite_sequence, call>>

Step(r, outcomes) ==
  \/ InsertOk(r) \/ InsertFail(r, outcomes) \/ CommitOk(r, outcomes) \/ CommitFail(r, outcomes)
  \/ StatsCount(r) \/ StatsGroup(r) \/ StatsAvg(r) \/ StatsFail(r)
  \/ Respond(r)

\* requests arrive at any time
Next ==
  \/ \E r \in Workers :
       \/ Analyze(r, ConcurrentAnalyzeBodies, ConcurrentOutcomes)
       \/ BatchAnalyze(r, ConcurrentBatchBodies, ConcurrentOutcomes)
       \/ StatsBegin(r)
       \/ Step(r, ConcurrentOutcomes)
  \/ Restart

Spec == Init /\ [][Next]_vars

\* one worker serves the requests one after the other
Server == CHOOSE r \in Workers : TRUE

NextSeq ==
  \/ Analyze(Server, AnalyzeBodies, ServiceOutcomes)
  \/ BatchAnalyze(Server, BatchBodies, ServiceOutcomes)
  \/ StatsBegin(Server)
  \/ Step(Server, ServiceOutcomes)
  \/ Restart

SpecSeq == Init /\ [][NextSeq]_vars

(***************************************************************************)
(* predict_sentiment called directly on a text.                            *)
(***************************************************************************)
InitClassify ==
  /\ TEXTBLOB_AVAILABLE \in BOOLEAN
  /\ tableExists = TRUE
  /\ table = << >>
  /\ sqlite_sequence = 0
  /\ writer = 0
  /\ req = [r \in Workers |-> Idle]
  /\ \E text \in ClassifyTexts : call = [NoCall EXCEPT !.phase = "called", !.text = text]

\* TextBlob is there: it raises or returns a polarity
ClassifyPrimary ==
  /\ call.phase = "called"
  /\ TEXTBLOB_AVAILABLE
  /\ \E outcome \in Outcomes(Polarities) :
       call' = [call EXCEPT !.phase = "returned", !.outcome = outcome,
                            !.result = predict_sentiment(call.text, TRUE, outcome)]
  /\ UNCHANGED <<TEXTBLOB_AVAILABLE, db, req>>

\* TextBlob is not installed
ClassifyFallback ==
  /\ call.phase = "called"
  /\ ~TEXTBLOB_AVAILABLE
  /\ call' = [call EXCEPT !.phase = "returned",
                          !.result = predict_sentiment(call.text, FALSE, call.outcome)]
  /\ UNCHANGED <<TEXTBLOB_AVAILABLE, db, req>>

NextClassify == ClassifyPrimary \/ ClassifyFallback

SpecClassify == InitClassify /\ [][NextClassify]_vars

(***************************************************************************)
(* Properties.                                                             *)
(***************************************************************************)
Labels == {"positive", "negative", "neutral"}

StatsKeys == {"total_predictions", "sentiment_distribution", "average_confidence"}

BatchDone(r) ==
  req[r].kind = "batch" /\ req[r].pc = "done" /\ req[r].resp.status = 200

StatsDone(r) == req[r].kind = "stats" /\ req[r].pc = "done"

\* the pairs <<capital, small>> of each letter
CasePairs == {<<UpperLetters[i], LowerLetters[i]>> : i \in 1..Len(UpperLetters)}

\* a and b are the same letter up to case
SameLetter(a, b) == a = b \/ <<a, b>> \in CasePairs \/ <<b, a>> \in CasePairs

\* word occurs in text as a substring, case ignored
Occurs(word, text) ==
  \E i \in 0..(Len(text) - Len(word)) :
    \A k \in 1..Len(word) : SameLetter(text[i + k], word[k])

Hits(words, text) == Cardinality({k \in 1..Len(words) : Occurs(words[k], text)})

\* the keyword rule: p positive hits, n negative hits
KeywordRule(text, label, confidence) ==
  LET p == Hits(positive_words, text)
      n == Hits(negative_words, text)
  IN IF p > n
     THEN label = "positive" /\ confidence = (IF p * 3 < 10 THEN p * 3000 ELSE 10000)
     ELSE IF n > p
     THEN label = "negative" /\ confidence = (IF n * 3 < 10 THEN n * 3000 ELSE 10000)
     ELSE label = "neutral" /\ confidence = 1000

\* a JSON value that is a string, non-empty after trimming whitespace
ValidText(v) ==
  /\ v.t = "str"
  /\ \E k \in 1..Len(v.s) : v.s[k] \notin {" ", "\t", "\n"}

\* the positions (from 1) of the non-empty strings of a batch
NonEmptyStrings(items) == {k \in 1..Len(items) : items[k].t = "str" /\ Len(items[k].s) > 0}

\* C1: an accepted batch answers with exactly one entry per non-empty string
\* item and none for any other item; the entries carry the original positions
\* (from 0) in strictly increasing order, and processed_count is their number.
C1_BatchOutcome ==
  \A r \in Workers :
    BatchDone(r) =>
      LET items == req[r].body.value.items
          res == req[r].resp.results
      IN /\ {res[k].index : k \in 1..Len(res)} = {k - 1 : k \in NonEmptyStrings(items)}
         /\ \A k \in 1..(Len(res) - 1) : res[k].index < res[k + 1].index
         /\ \A k \in 1..Len(res) : ~res[k].error
         /\ req[r].resp.processed_count = Len(res)

C1_Witness ==
  \E r \in Workers :
    /\ BatchDone(r)
    /\ req[r].body.value.items = <<JStr(T_good), JInt(42), JStr(T_bad)>>
    /\ Len(req[r].resp.results) = 2
    /\ req[r].resp.results[1].index = 0
    /\ req[r].resp.results[2].index = 2
    /\ req[r].resp.processed_count = 2

\* C2: a batch that is empty or longer than 100 items is answered 400 with no
\* call of the classifier and no call of the store, which stays as it was; a
\* batch of 1 to 100 items is never answered 400.
C2_SizeState ==
  \A r \in Workers :
    (req[r].kind = "batch" /\ req[r].body.has /\ req[r].body.value.t = "list") =>
      LET n == Len(req[r].body.value.items)
      IN /\ (n = 0 \/ n > 100) =>
              /\ req[r].pc = "done"
              /\ req[r].resp.status = 400
              /\ req[r].classified = << >>
              /\ req[r].stored = << >>
              /\ writer # r
         /\ (n >= 1 /\ n <= 100) => req[r].resp.status # 400

C2_SizeStep ==
  \A r \in Workers :
    (req[r].kind = "idle" /\ req'[r].kind = "batch" /\ req'[r].resp.status = 400) =>
      UNCHANGED <<tableExists, table, sqlite_sequence, writer>>

C2_BatchSize == []C2_SizeState /\ [][C2_SizeStep]_vars

C2_Witness ==
  \E r \in Workers :
    /\ req[r].kind = "batch" /\ req[r].resp.status = 400
    /\ Len(req[r].body.value.items) = 101
    /\ req[r].body.value.items[101] = JStr(T_good)
    /\ table # << >>

\* C3: the keyword model answers by the rule of the hit counts p and n alone:
\* positive with min(0.3 p, 1) if p > n, negative with min(0.3 n, 1) if n > p,
\* neutral with 0.1 if p = n; hits are case-insensitive substring matches.
C3_KeywordModel ==
  (call.phase = "returned" /\ call.result.model_type = "keyword_fallback") =>
    KeywordRule(call.text, call.result.sentiment, call.result.confidence)

C3_Witness ==
  /\ call.phase = "returned"
  /\ call.result.model_type = "keyword_fallback"
  /\ call.text = <<"G","R","E","A","T">> \o T_good \o <<"l","o","v","e">>
                   \o <<"s","u","p","e","r","b">>
  /\ call.result.sentiment = "positive"
  /\ call.result.confidence = 10000

\* the rows of the table with the given label
RowsWith(label) == {k \in 1..Len(table) : table[k].sentiment_label = label}

RECURSIVE SumOf(_, _)
SumOf(f, S) ==
  IF S = {} THEN 0
  ELSE LET x == CHOOSE y \in S : TRUE IN f[x] + SumOf(f, S \ {x})

TotalConfidence ==
  SumOf([k \in 1..Len(table) |-> table[k].sentiment_confidence], 1..Len(table))

\* every row id a call of store_prediction returned is the id of a stored row
ReturnedIdsStored ==
  \A r \in Workers : \A k \in 1..Len(req[r].stored) :
    req[r].stored[k] > 0 => \E j \in 1..Len(table) : table[j].id = req[r].stored[k]

\* a snapshot read with no other request in flight: counts and distribution
SnapshotCounts(snap) ==
  /\ snap.keys = StatsKeys
  /\ snap.total_predictions = Len(table)
  /\ DOMAIN snap.sentiment_distribution = {l \in Labels : RowsWith(l) # {}}
  /\ \A l \in DOMAIN snap.sentiment_distribution :
       snap.sentiment_distribution[l] = Cardinality(RowsWith(l))

C5_ZeroedSnapshot ==
  \A r \in Workers :
    (StatsDone(r) /\ req[r].errors # << >>) =>
      /\ req[r].resp.status = 200
      /\ req[r].resp.stats.keys = StatsKeys
      /\ req[r].resp.stats.total_predictions = 0
      /\ DOMAIN req[r].resp.stats.sentiment_distribution = {}
      /\ req[r].resp.stats.average_confidence = 0

\* C6: a failed insert does not fail the request: store_prediction returns
\* None and does not raise, /analyze answers 200 with the classifier's label
\* and confidence and a null analysis_id, a batch item keeps its success
\* entry, and the failed insert adds no row.
C6_InsertState ==
  \A r \in Workers :
    /\ \A k \in 1..Len(req[r].stored) : req[r].stored[k] >= 0
    /\ (req[r].kind = "analyze" /\ req[r].pc = "done" /\ req[r].stored = <<0>>) =>
         /\ req[r].resp.status = 200
         /\ req[r].resp.analysis_id = 0
         /\ ~req[r].resp.sentiment.exc
         /\ req[r].resp.sentiment = req[r].sentiment
         /\ (~TEXTBLOB_AVAILABLE =>
               KeywordRule(req[r].body.value.s, req[r].resp.sentiment.sentiment,
                           req[r].resp.sentiment.confidence))
    /\ (req[r].kind = "batch" /\ req[r].stored # << >>) =>
         /\ Len(req[r].results) >= Len(req[r].stored)
         /\ \A k \in 1..Len(req[r].stored) :
              /\ ~req[r].results[k].error
              /\ req[r].results[k].text = req[r].classified[k]
         /\ req[r].pc = "done" => req[r].resp.status = 200 /\ req[r].resp.results = req[r].results

C6_InsertStep ==
  \A r \in Workers :
    (req'[r].stored = Append(req[r].stored, 0)) =>
      (table' = table /\ sqlite_sequence' = sqlite_sequence)

C6_InsertFailure == []C6_InsertState /\ [][C6_InsertStep]_vars

C6_Witness ==
  \E r \in Workers :
    /\ req[r].kind = "batch" /\ req[r].pc = "done"
    /\ req[r].stored = <<0, 1>>
    /\ Len(req[r].resp.results) = 2
    /\ Len(table) = 1

\* C7: the ids of the stored rows are distinct and increase strictly in the
\* order of insertion, whatever the interleaving, the failures and the restarts.
C7_IdsIncrease ==
  /\ \A j, k \in 1..Len(table) : j < k => table[j].id < table[k].id
  /\ \A k \in 1..Len(table) : table[k].id >= 1 /\ table[k].id <= sqlite_sequence

C7_Witness ==
  \E r, r2 \in Workers :
    /\ r # r2
    /\ Len(table) = 2
    /\ req[r].stored = <<2>>
    /\ req[r2].stored = <<0>>

\* C9: a snapshot is that of one moment of the store: its label counts sum to
\* its total.
C9_SnapshotConsistent ==
  \A r \in Workers :
    (StatsDone(r) /\ req[r].resp.stats.keys # {}) =>
      SumOf(req[r].resp.stats.sentiment_distribution,
            DOMAIN req[r].resp.stats.sentiment_distribution)
        = req[r].resp.stats.total_predictions

\* C8: on a non-empty text predict_sentiment does not raise; without TextBlob
\* or when TextBlob raises, the result is the keyword model's, tagged
\* keyword_fallback; when TextBlob returns polarity q, the result is tagged
\* textblob, positive if q > 0.1, negative if q < -0.1, else neutral, with |q|.
C8_PrimaryOrFallback ==
  (call.phase = "returned" /\ call.text # << >>) =>
    /\ ~call.result.exc
    /\ IF ~TEXTBLOB_AVAILABLE \/ call.outcome.raises
       THEN /\ call.result.model_type = "keyword_fallback"
            /\ KeywordRule(call.text, call.result.sentiment, call.result.confidence)
       ELSE LET q == call.outcome.polarity
            IN /\ call.result.model_type = "textblob"
               /\ call.result.sentiment =
                    (IF q > 1000 THEN "positive" ELSE IF q < -1000 THEN "negative" ELSE "neutral")
               /\ call.result.confidence = (IF q < 0 THEN 0 - q ELSE q)

C8_Witness ==
  /\ call.phase = "returned"
  /\ TEXTBLOB_AVAILABLE
  /\ call.outcome.raises
  /\ call.text = T_bad \o <<"H","a","t","e">>
  /\ call.result.sentiment = "negative"
  /\ call.result.confidence = 6000

\* C10: the classifier is only called with, and the store only receives, a
\* string that is non-empty after trimming whitespace.
C10_OnlyValidText ==
  /\ \A r \in Workers : \A k \in 1..Len(req[r].classified) : ValidText(req[r].classified[k])
  /\ \A k \in 1..Len(table) : ValidText(table[k].input_text)

====
